---------------------------- MODULE Spec2Model ----------------------------
(***************************************************************************)
(* The two-pass mini type checker of mini-type-checker/mini_type_checker.py *)
(* SemanticAnalyzer.analyze fills three symbol tables from a libcst tree,   *)
(* TypeChecker.check walks the same tree again and prints diagnostics.      *)
(*                                                                          *)
(* One behaviour is the life of one SemanticAnalyzer object and of the      *)
(* TypeChecker objects built on it.  The calls analyze, TypeChecker(...)    *)
(* and check may be made in any order and any number of times; each loop of *)
(* the code advances one statement per step.                                *)
(*                                                                          *)
(* Spec:        every call is made on the one module parsed at the start,   *)
(*              as run() does (lines 303-315).                              *)
(* SpecAnyTree: every analyze and check call is made on a module of its     *)
(*              own choice.                                                 *)
(***************************************************************************)
EXTENDS Naturals, Sequences, FiniteSets, TLC

VARIABLES
    root,                \* the module handed to the current (or last) call
    GENERICS_TYPE_INFO,  \* SemanticAnalyzer.GENERICS_TYPE_INFO (a dict)
    FUNCTION_TYPE_INFO,  \* SemanticAnalyzer.FUNCTION_TYPE_INFO (a dict)
    VARIABLE_TYPE_INFO,  \* SemanticAnalyzer.VARIABLE_TYPE_INFO (a dict)
    done,                \* SemanticAnalyzer.done
    checker,             \* TRUE once a TypeChecker holds this analyzer
    pc,                  \* the call in progress and its loop position
    result,              \* the last call that returned or raised
    run,                 \* the current (or last) check call and what it printed
    prev                 \* the check call before it, if on the same module
                         \* (both since the analyzer last ran)

vars == <<root, GENERICS_TYPE_INFO, FUNCTION_TYPE_INFO, VARIABLE_TYPE_INFO,
          done, checker, pc, result, run, prev>>

tables == <<GENERICS_TYPE_INFO, FUNCTION_TYPE_INFO, VARIABLE_TYPE_INFO>>

\* The longest module body drawn from StatementPool.
MaxStmts == 3

\* The longest module body handed to a call of SpecAnyTree.
MaxCallStmts == 1

---------------------------------------------------------------------------
(* Type names, lines 7-9.                                                  *)

ANY_TYPE == "any"

INT_TYPE == "int"

STR_TYPE == "str"

---------------------------------------------------------------------------
(* Python dicts.                                                           *)

EmptyDict == [k \in {} |-> k]

Put(d, k, v) == [x \in (DOMAIN d) \cup {k} |-> IF x = k THEN v ELSE d[x]]

Values(d) == {d[k] : k \in DOMAIN d}

NoFailure == "none"

---------------------------------------------------------------------------
(* libcst nodes, as far as the two passes look into them.                  *)

None == [type |-> "None"]

Name(id) == [type |-> "Name", value |-> id]

Integer(text) == [type |-> "Integer", value |-> text]

\* A string literal; its source text (node.value) is quote, chars, quote.
SimpleString(chars) == [type |-> "SimpleString", quote |-> "\"", chars |-> chars]

Call(func, args) == [type |-> "Call", func |-> Name(func), args |-> args]

BinaryOperation(left, operator, right) ==
    [type |-> "BinaryOperation", left |-> left,
     operator |-> [type |-> operator], right |-> right]

Annotation(id) == [type |-> "Annotation", annotation |-> Name(id)]

Param(id, annotation) == [name |-> Name(id), annotation |-> annotation]

SimpleStatementLine(small) == [type |-> "SimpleStatementLine", body |-> <<small>>]

Assign(target, value) ==
    SimpleStatementLine([type |-> "Assign", target |-> Name(target), value |-> value])

AnnAssign(target, annotation, value) ==
    SimpleStatementLine([type |-> "AnnAssign", target |-> Name(target),
                         annotation |-> Annotation(annotation), value |-> value])

Return(value) == SimpleStatementLine([type |-> "Return", value |-> value])

Expr(value) == SimpleStatementLine([type |-> "Expr", value |-> value])

ImportFrom == SimpleStatementLine([type |-> "ImportFrom"])

FunctionDef(id, params, returns, body) ==
    [type |-> "FunctionDef", name |-> Name(id), params |-> params,
     returns |-> returns, body |-> body]

ClassDef == [type |-> "ClassDef"]

Module(body) == [body |-> body]

---------------------------------------------------------------------------
(* The modules the passes are run on.                                      *)

\* T = TypeVar("T")
TypeVarT == Assign("T", Call("TypeVar", <<SimpleString("T")>>))

\* T = TypeVar("U")
TypeVarU == Assign("T", Call("TypeVar", <<SimpleString("U")>>))

\* y = 1
PlainInt == Assign("y", Integer("1"))

\* y = g(1)
PlainCall == Assign("y", Call("g", <<Integer("1")>>))

\* def f(x: T) -> T: return x
DefF == FunctionDef("f", <<Param("x", Annotation("T"))>>, Annotation("T"),
                    <<Return(Name("x"))>>)

\* def g(x: int) -> int: return x
DefG == FunctionDef("g", <<Param("x", Annotation("int"))>>, Annotation("int"),
                    <<Return(Name("x"))>>)

\* def h(x) -> str:
\*     v: str = 1
\*     return ((g(1) + 1) + "b") - "a"
DefH == FunctionDef("h", <<Param("x", None)>>, Annotation("str"),
                    <<AnnAssign("v", "str", Integer("1")),
                      Return(BinaryOperation(
                                 BinaryOperation(
                                     BinaryOperation(Call("g", <<Integer("1")>>),
                                                     "Add", Integer("1")),
                                     "Add", SimpleString("b")),
                                 "Subtract", SimpleString("a")))>>)

\* v: int = 1
VInt == AnnAssign("v", "int", Integer("1"))

\* v: str = 1
VStr == AnnAssign("v", "str", Integer("1"))

\* v: str = f(1)
VStrF1 == AnnAssign("v", "str", Call("f", <<Integer("1")>>))

\* v: str = f("a")
VStrFa == AnnAssign("v", "str", Call("f", <<SimpleString("a")>>))

\* g("a")
CallGa == Expr(Call("g", <<SimpleString("a")>>))

\* f(y)
CallFy == Expr(Call("f", <<Name("y")>>))

StatementPool ==
    {TypeVarT, TypeVarU, PlainInt, PlainCall, DefF, DefG, DefH,
     VInt, VStr, VStrF1, VStrFa, CallGa, CallFy, ClassDef}

\* def f(x: T) -> T: return deepcopy(x)
DefFDeepcopy == FunctionDef("f", <<Param("x", Annotation("T"))>>, Annotation("T"),
                            <<Return(Call("deepcopy", <<Name("x")>>))>>)

\* x: int = 1
XInt == AnnAssign("x", "int", Integer("1"))

\* copy_x: str = f(1)
CopyX == AnnAssign("copy_x", "str", Call("f", <<Integer("1")>>))

\* cases/generics_typed_ng.py
generics_typed_ng ==
    Module(<<ImportFrom, ImportFrom, TypeVarT, DefFDeepcopy, XInt, CopyX>>)

\* The same program without its imports, returning deepcopy(x) or x.
GenericsPrograms ==
    {generics_typed_ng,
     Module(<<TypeVarT, DefFDeepcopy, XInt, CopyX>>),
     Module(<<TypeVarT, DefF, XInt, CopyX>>)}

Modules ==
    {Module(b) : b \in UNION {[1..n -> StatementPool] : n \in 0..MaxStmts}}
        \cup GenericsPrograms

\* The statements of the modules handed to a call of SpecAnyTree: a generic
\* declaration, the three definitions, annotated assignments that write and
\* overwrite the variable table, and one statement for each failure of
\* analyze and of check.
CallPool ==
    {TypeVarT, DefF, DefG, DefH, VInt, VStr, VStrF1, PlainInt, CallGa, ClassDef}

CallModules ==
    {Module(b) : b \in UNION {[1..n -> CallPool] : n \in 0..MaxCallStmts}}

---------------------------------------------------------------------------
(* SemanticAnalyzer, lines 12-89.                                          *)

\* eval() of the source text of a call's first argument, line 59.  A string
\* literal evaluates to its characters without the quotes; a name that is
\* not bound where eval runs raises NameError; a node without .value (a
\* call, a binary operation) raises AttributeError before eval is reached.
\* (Number literals are not among the arguments of these modules.)
eval(node) ==
    CASE node.type = "SimpleString" -> [failure |-> NoFailure, value |-> node.chars]
      [] node.type = "Name" -> [failure |-> "NameError", value |-> ""]
      [] OTHER -> [failure |-> "AttributeError", value |-> ""]

\* A slip in the isinstance test: every annotation is taken as missing.
_analyze_annotation_missing(node) == ANY_TYPE

_analyze_annotation(node) ==
    IF node.type = "Annotation" THEN node.annotation.value ELSE ANY_TYPE

\* The effect of one simple statement line on the tables: the exception it
\* raises, if any, and the generics and variable tables after it.
_analyze_simple_statement_line(node) ==
    LET body == node.body[1]
        same(failure) == [failure |-> failure,
                          generics |-> GENERICS_TYPE_INFO,
                          variables |-> VARIABLE_TYPE_INFO]
    IN  CASE body.type = "Assign" ->
               \* line 56 reads body.value.func: only a Call has it
               IF body.value.type # "Call" THEN same("AttributeError")
               ELSE IF body.value.func.value = "TypeVar"
               THEN IF body.value.args = <<>> THEN same("IndexError")
                    ELSE LET variable_value == eval(body.value.args[1])
                         IN  IF variable_value.failure # NoFailure
                             THEN same(variable_value.failure)
                             ELSE [failure |-> NoFailure,
                                   generics |-> Put(GENERICS_TYPE_INFO,
                                                    body.target.value,
                                                    variable_value.value),
                                   variables |-> VARIABLE_TYPE_INFO]
               ELSE same(NoFailure)
          [] body.type = "AnnAssign" ->
               [failure |-> NoFailure,
                generics |-> GENERICS_TYPE_INFO,
                variables |-> Put(VARIABLE_TYPE_INFO, body.target.value,
                                  _analyze_annotation(body.annotation))]
          [] body.type \in {"Return", "Expr", "ImportFrom"} -> same(NoFailure)
          [] OTHER -> same("NotImplementedError")

Idle == [op |-> "idle", i |-> 0, j |-> 0]

At(op, i, j) == [op |-> op, i |-> i, j |-> j]

Finished(op, failure) == [op |-> op, failure |-> failure]

NoRun == [state |-> "none", lines |-> <<>>, failure |-> NoFailure]

\* analyzer.analyze(m) is called, line 80.
AnalyzeCallOn(m) ==
    /\ pc = Idle
    /\ root' = m
    /\ pc' = At("analyze", 1, 0)
    /\ run' = NoRun
    /\ prev' = NoRun
    /\ UNCHANGED <<tables, done, checker, result>>

\* analyze is called on the module parsed at the start.
AnalyzeCall == AnalyzeCallOn(root)

\* analyze is called on any module.
AnalyzeCallAny == \E m \in CallModules : AnalyzeCallOn(m)

\* A simple statement line met by analyze (line 84) or by
\* _analyze_function_def (line 40); `next` is the loop position after it.
AnalyzeLine(node, next) ==
    LET r == _analyze_simple_statement_line(node)
    IN  /\ GENERICS_TYPE_INFO' = r.generics
        /\ VARIABLE_TYPE_INFO' = r.variables
        /\ UNCHANGED <<FUNCTION_TYPE_INFO, done>>
        /\ IF r.failure = NoFailure
           THEN pc' = next /\ UNCHANGED result
           ELSE pc' = Idle /\ result' = Finished("analyze", r.failure)

\* analyze raises, lines 42 and 88.
AnalyzeRaise(failure) ==
    /\ pc' = Idle
    /\ result' = Finished("analyze", failure)
    /\ UNCHANGED <<tables, done>>

\* One turn of the loop of analyze, lines 82-88, and line 89 after the last.
analyze ==
    /\ pc.op = "analyze"
    /\ pc.j = 0
    /\ IF pc.i > Len(root.body)
       THEN /\ done' = TRUE
            /\ pc' = Idle
            /\ result' = Finished("analyze", NoFailure)
            /\ UNCHANGED tables
       ELSE LET node == root.body[pc.i]
            IN  CASE node.type = "SimpleStatementLine" ->
                       AnalyzeLine(node, At("analyze", pc.i + 1, 0))
                  [] node.type = "FunctionDef" ->
                       /\ pc' = At("analyze", pc.i, 1)
                       /\ UNCHANGED <<tables, done, result>>
                  [] OTHER -> AnalyzeRaise("NotImplementedError")
    /\ UNCHANGED <<root, checker, run, prev>>

\* One turn of the loop of _analyze_function_def, lines 38-42, and the
\* signature it records after the last, lines 44-48.
_analyze_function_def ==
    /\ pc.op = "analyze"
    /\ pc.j > 0
    /\ LET node == root.body[pc.i]
       IN  IF pc.j > Len(node.body)
           THEN /\ FUNCTION_TYPE_INFO' =
                       Put(FUNCTION_TYPE_INFO, node.name.value,
                           [args |-> [k \in 1..Len(node.params) |->
                                        <<node.params[k].name.value,
                                          _analyze_annotation(node.params[k].annotation)>>],
                            return |-> _analyze_annotation(node.returns)])
                /\ pc' = At("analyze", pc.i + 1, 0)
                /\ UNCHANGED <<GENERICS_TYPE_INFO, VARIABLE_TYPE_INFO, done, result>>
           ELSE IF node.body[pc.j].type = "SimpleStatementLine"
                THEN AnalyzeLine(node.body[pc.j], At("analyze", pc.i, pc.j + 1))
                ELSE AnalyzeRaise("NotImplementedError")
    /\ UNCHANGED <<root, checker, run, prev>>

---------------------------------------------------------------------------
(* The diagnostic lines, lines 92-95: a template and the values format()   *)
(* puts into its {} fields, in order.                                      *)

arg_type_error_tmpl(pos, func, actual, declared) ==
    [tmpl |-> "arg-type", pos |-> pos, func |-> func,
     actual |-> actual, declared |-> declared]

assignment_error_tmpl(actual, declared) ==
    [tmpl |-> "assignment", actual |-> actual, declared |-> declared]

return_value_error_tmpl(got, expected) ==
    [tmpl |-> "return-value", got |-> got, expected |-> expected]

operand_error_tmpl(op, left, right) ==
    [tmpl |-> "operator", op |-> op, left |-> left, right |-> right]

---------------------------------------------------------------------------
(* TypeChecker, lines 98-300.  A checking method yields the lines it       *)
(* prints, in order, and the exception that ends it, if any.               *)

Printed(lines) == [lines |-> lines, failure |-> NoFailure]

Raised(lines, failure) == [lines |-> lines, failure |-> failure]

\* Two methods called one after the other.
Then(first, second) ==
    IF first.failure # NoFailure THEN first
    ELSE [lines |-> first.lines \o second.lines, failure |-> second.failure]

RECURSIVE _resolve_node(_), _check_and_resolve_binary_operation(_)

\* The type a node resolves to and the lines printed on the way.
_resolve_node(node) ==
    CASE node.type = "Return" -> _resolve_node(node.value)
      [] node.type = "Add" -> [type |-> "+", lines |-> <<>>]
      [] node.type = "Integer" -> [type |-> INT_TYPE, lines |-> <<>>]
      [] node.type = "SimpleString" -> [type |-> STR_TYPE, lines |-> <<>>]
      [] node.type = "Call" ->
           IF node.func.value \notin DOMAIN FUNCTION_TYPE_INFO
           THEN [type |-> ANY_TYPE, lines |-> <<>>]
           ELSE [type |-> FUNCTION_TYPE_INFO[node.func.value].return, lines |-> <<>>]
      [] node.type = "Name" -> [type |-> ANY_TYPE, lines |-> <<>>]
      [] node.type = "BinaryOperation" -> _check_and_resolve_binary_operation(node)
      [] OTHER -> [type |-> ANY_TYPE, lines |-> <<>>]

\* `left is ANY_TYPE` compares identities; every "any" of these modules is
\* the ANY_TYPE object itself (no annotation spells the name any), so the
\* test is the comparison of the names.
_check_and_resolve_binary_operation(node) ==
    LET operator == _resolve_node(node.operator)
        left == _resolve_node(node.left)
        right == _resolve_node(node.right)
        lines == operator.lines \o left.lines \o right.lines
    IN  IF left.type = ANY_TYPE \/ right.type = ANY_TYPE
        THEN [type |-> ANY_TYPE, lines |-> lines]
        ELSE IF left.type # right.type
        THEN [type |-> left.type,
              lines |-> Append(lines, operand_error_tmpl(operator.type, left.type,
                                                         right.type))]
        ELSE [type |-> left.type, lines |-> lines]

\* The pass of the loop of _check_args over argument i (counted from 1),
\* lines 144-168.
_check_arg(func_name, i, arg) ==
    IF i > Len(FUNCTION_TYPE_INFO[func_name].args)
    THEN Raised(<<>>, "IndexError")
    ELSE LET annotated_type == FUNCTION_TYPE_INFO[func_name].args[i][2]
         IN  CASE annotated_type = ANY_TYPE -> Printed(<<>>)
               [] annotated_type \in Values(GENERICS_TYPE_INFO) -> Printed(<<>>)
               [] arg.type = "SimpleString" ->
                    IF annotated_type # STR_TYPE
                    THEN Printed(<<arg_type_error_tmpl(i, func_name, STR_TYPE,
                                                       annotated_type)>>)
                    ELSE Printed(<<>>)
               [] arg.type = "Integer" ->
                    IF annotated_type # INT_TYPE
                    THEN Printed(<<arg_type_error_tmpl(i, func_name, INT_TYPE,
                                                       annotated_type)>>)
                    ELSE Printed(<<>>)
               [] OTHER -> Raised(<<>>, "NotImplementedError")

RECURSIVE _check_args_from(_, _, _)

_check_args_from(func_name, args, i) ==
    IF i > Len(args) THEN Printed(<<>>)
    ELSE Then(_check_arg(func_name, i, args[i]),
              _check_args_from(func_name, args, i + 1))

_check_args(node) ==
    LET func_name == node.value.func.value
    IN  IF func_name \notin DOMAIN FUNCTION_TYPE_INFO THEN Printed(<<>>)
        ELSE _check_args_from(func_name, node.value.args, 1)

\* self.ANALYZER.VARIABLE_TYPE_INFO[node.target.value]: only an AnnAssign
\* has .target, and the name must be in the table.
VariableType(node) ==
    IF node.type # "AnnAssign" THEN [failure |-> "AttributeError", type |-> ""]
    ELSE IF node.target.value \notin DOMAIN VARIABLE_TYPE_INFO
    THEN [failure |-> "KeyError", type |-> ""]
    ELSE [failure |-> NoFailure, type |-> VARIABLE_TYPE_INFO[node.target.value]]

\* if <differs>: print(<line>)
PrintIf(differs, line) == IF differs THEN Printed(<<line>>) ELSE Printed(<<>>)

_check_return(node) ==
    LET func_name == node.value.func.value
    IN  IF func_name \notin DOMAIN FUNCTION_TYPE_INFO THEN Printed(<<>>)
        ELSE
        LET annotated_return == FUNCTION_TYPE_INFO[func_name].return
            typed_args == node.value.args
            annotated_args == FUNCTION_TYPE_INFO[func_name].args
            same == {i \in 1..Len(annotated_args) :
                        annotated_args[i][2] = annotated_return}
            declared == VariableType(node)
        IN  IF annotated_return \in DOMAIN GENERICS_TYPE_INFO
            THEN IF \E i \in same : i > Len(typed_args)
                 THEN Raised(<<>>, "IndexError")
                 ELSE LET actual_type ==
                              IF \E i \in same : typed_args[i].type = "Integer"
                              THEN INT_TYPE ELSE ANY_TYPE
                      IN  IF declared.failure # NoFailure
                          THEN Raised(<<>>, declared.failure)
                          ELSE PrintIf(declared.type # actual_type,
                                       assignment_error_tmpl(actual_type,
                                                             declared.type))
            ELSE IF annotated_return # ANY_TYPE
            THEN CASE node.type = "AnnAssign" ->
                        \* here the variable's declared type is named actual_type
                        IF declared.failure # NoFailure
                        THEN Raised(<<>>, declared.failure)
                        ELSE PrintIf(declared.type # annotated_return,
                                     assignment_error_tmpl(annotated_return,
                                                           declared.type))
                   [] node.type = "Return" -> Printed(<<>>)
                   [] OTHER -> Raised(<<>>, "NotImplementedError")
            ELSE Printed(<<>>)

_check_call(node) == Then(_check_args(node), _check_return(node))

_check_assignment(node) ==
    LET declared == VariableType(node)
    IN  Then(IF node.value.type = "Integer"
             THEN IF declared.failure # NoFailure
                  THEN Raised(<<>>, declared.failure)
                  ELSE PrintIf(declared.type # INT_TYPE,
                               assignment_error_tmpl(INT_TYPE, declared.type))
             ELSE Printed(<<>>),
             IF node.value.type = "Call"
             THEN _check_call(node) ELSE Printed(<<>>))

_check_simple_statement_line(node) ==
    LET body == node.body[1]
    IN  CASE body.type = "AnnAssign" -> _check_assignment(body)
          [] body.type = "Expr" /\ body.value.type = "Call" -> _check_call(body)
          [] OTHER -> Printed(<<>>)

_check_function_return(node) ==
    LET function_name == node.name.value
        returns == {k \in 1..Len(node.body) :
                       /\ node.body[k].type = "SimpleStatementLine"
                       /\ node.body[k].body[1].type = "Return"}
    IN  IF function_name \notin DOMAIN FUNCTION_TYPE_INFO THEN Printed(<<>>)
        ELSE
        LET annotated_return_type == FUNCTION_TYPE_INFO[function_name].return
            first == CHOOSE k \in returns : \A m \in returns : k <= m
            actual == IF returns = {} THEN [type |-> ANY_TYPE, lines |-> <<>>]
                      ELSE _resolve_node(node.body[first].body[1])
            actual_return_type == actual.type
        IN  IF annotated_return_type = ANY_TYPE \/ actual_return_type = ANY_TYPE
            THEN Printed(actual.lines)
            ELSE IF annotated_return_type # actual_return_type
            THEN Printed(Append(actual.lines,
                                return_value_error_tmpl(actual_return_type,
                                                        annotated_return_type)))
            ELSE Printed(actual.lines)

\* The constructor without its test of analyzer.done.
TypeChecker__init__unguarded ==
    /\ pc = Idle
    /\ checker' = TRUE
    /\ result' = Finished("TypeChecker", NoFailure)
    /\ UNCHANGED <<root, tables, done, pc, run, prev>>

\* TypeChecker(analyzer), lines 103-106.
TypeChecker__init__ ==
    /\ pc = Idle
    /\ IF ~done
       THEN /\ result' = Finished("TypeChecker", "RuntimeError")
            /\ UNCHANGED checker
       ELSE /\ checker' = TRUE
            /\ result' = Finished("TypeChecker", NoFailure)
    /\ UNCHANGED <<root, tables, done, pc, run, prev>>

\* A checker that stores the type it found for a variable back into the
\* analyzer's table.
WritesAnalyzer ==
    /\ VARIABLE_TYPE_INFO' = [k \in DOMAIN VARIABLE_TYPE_INFO |-> INT_TYPE]
    /\ UNCHANGED <<GENERICS_TYPE_INFO, FUNCTION_TYPE_INFO, done>>

\* No method of TypeChecker assigns to the analyzer it holds: lines 108-300
\* only read self.ANALYZER.
ReadsAnalyzer == UNCHANGED <<tables, done>>

\* checker.check(m) is called on a constructed checker, line 290.
CheckCallOn(m) ==
    /\ pc = Idle
    /\ checker
    /\ root' = m
    /\ pc' = At("check", 1, 0)
    /\ prev' = IF m = root THEN run ELSE NoRun
    /\ run' = [state |-> "running", lines |-> <<>>, failure |-> NoFailure]
    /\ ReadsAnalyzer
    /\ UNCHANGED <<checker, result>>

\* check is called on the module parsed at the start.
CheckCall == CheckCallOn(root)

\* check is called on any module.
CheckCallAny == \E m \in CallModules : CheckCallOn(m)

\* What a checking method printed goes to the output; the exception it
\* raised ends the call, otherwise the loop goes on at `next`.
CheckStep(r, next) ==
    IF r.failure = NoFailure
    THEN /\ run' = [run EXCEPT !.lines = @ \o r.lines]
         /\ pc' = next
         /\ UNCHANGED result
    ELSE /\ run' = [state |-> "raised", lines |-> run.lines \o r.lines,
                    failure |-> r.failure]
         /\ pc' = Idle
         /\ result' = Finished("check", r.failure)

\* One turn of the loop of check over the module, lines 294-300, and its
\* return after the last.
check ==
    /\ pc.op = "check"
    /\ pc.j = 0
    /\ IF pc.i > Len(root.body)
       THEN /\ run' = [run EXCEPT !.state = "returned"]
            /\ pc' = Idle
            /\ result' = Finished("check", NoFailure)
       ELSE LET node == root.body[pc.i]
            IN  CASE node.type = "SimpleStatementLine" ->
                       CheckStep(_check_simple_statement_line(node),
                                 At("check", pc.i + 1, 0))
                  [] node.type = "FunctionDef" ->
                       /\ pc' = At("check", pc.i, 1)
                       /\ UNCHANGED <<run, result>>
                  [] OTHER -> CheckStep(Raised(<<>>, "NotImplementedError"), Idle)
    /\ ReadsAnalyzer
    /\ UNCHANGED <<root, checker, prev>>

\* _check_function_def, lines 285-288: one turn of the loop of check over
\* the function's body (_check_function_content), and _check_function_return
\* after the last.  A body line that is no simple statement line is never
\* met here: analyze raises on it, done stays false and no checker exists.
_check_function_def ==
    /\ pc.op = "check"
    /\ pc.j > 0
    /\ LET node == root.body[pc.i]
       IN  IF pc.j > Len(node.body)
           THEN CheckStep(_check_function_return(node), At("check", pc.i + 1, 0))
           ELSE IF node.body[pc.j].type = "SimpleStatementLine"
                THEN CheckStep(_check_simple_statement_line(node.body[pc.j]),
                               At("check", pc.i, pc.j + 1))
                ELSE CheckStep(Raised(<<>>, "NotImplementedError"), Idle)
    /\ ReadsAnalyzer
    /\ UNCHANGED <<root, checker, prev>>

\* SemanticAnalyzer(), lines 22-26, on a freshly parsed module.
Init ==
    /\ root \in Modules
    /\ GENERICS_TYPE_INFO = EmptyDict
    /\ FUNCTION_TYPE_INFO = EmptyDict
    /\ VARIABLE_TYPE_INFO = EmptyDict
    /\ done = FALSE
    /\ checker = FALSE
    /\ pc = Idle
    /\ result = Finished("none", NoFailure)
    /\ run = NoRun
    /\ prev = NoRun

Next ==
    \/ AnalyzeCall
    \/ analyze
    \/ _analyze_function_def
    \/ TypeChecker__init__
    \/ CheckCall
    \/ check
    \/ _check_function_def

Spec == Init /\ [][Next]_vars

\* SemanticAnalyzer(), lines 22-26, before any module is handed to it.
InitAnyTree ==
    /\ root = Module(<<>>)
    /\ GENERICS_TYPE_INFO = EmptyDict
    /\ FUNCTION_TYPE_INFO = EmptyDict
    /\ VARIABLE_TYPE_INFO = EmptyDict
    /\ done = FALSE
    /\ checker = FALSE
    /\ pc = Idle
    /\ result = Finished("none", NoFailure)
    /\ run = NoRun
    /\ prev = NoRun

NextAnyTree ==
    \/ AnalyzeCallAny
    \/ analyze
    \/ _analyze_function_def
    \/ TypeChecker__init__
    \/ CheckCallAny
    \/ check
    \/ _check_function_def

SpecAnyTree == InitAnyTree /\ [][NextAnyTree]_vars

---------------------------------------------------------------------------
(* What the claims speak of.                                               *)

\* The loop of the call in progress stands at a statement line.
AtLine ==
    /\ pc.op \in {"analyze", "check"}
    /\ pc.i <= Len(root.body)
    /\ IF pc.j = 0 THEN root.body[pc.i].type = "SimpleStatementLine"
       ELSE /\ pc.j <= Len(root.body[pc.i].body)
            /\ root.body[pc.i].body[pc.j].type = "SimpleStatementLine"

\* The statement of that line.
Statement ==
    IF pc.j = 0 THEN root.body[pc.i].body[1] ELSE root.body[pc.i].body[pc.j].body[1]

\* The lines a step of check prints.
StepLines == SubSeq(run'.lines, Len(run.lines) + 1, Len(run'.lines))

\* A check call that has ended, by returning or by raising.
Ended(r) == r.state \in {"returned", "raised"}

\* The type names a diagnostic line shows.
TypeFields(line) ==
    CASE line.tmpl = "arg-type" -> {line.actual, line.declared}
      [] line.tmpl = "assignment" -> {line.actual, line.declared}
      [] line.tmpl = "return-value" -> {line.got, line.expected}
      [] line.tmpl = "operator" -> {line.left, line.right}

\* C1: on the generics program (T registered, f(x: T) -> T returning a name
\* or a call to an unknown function, x: int = 1, copy_x: str = f(1)) no
\* analyze or check call fails, and a check that has returned has printed
\* exactly one line, the assignment diagnostic with actual "int" and
\* declared "str".
C1_GenericsEndToEnd ==
    root \in GenericsPrograms =>
        /\ result.op \in {"analyze", "check"} => result.failure = NoFailure
        /\ run.failure = NoFailure
        /\ run.state = "returned" =>
               run.lines = <<assignment_error_tmpl("int", "str")>>

C1_Witness ==
    /\ root = generics_typed_ng
    /\ run.state = "returned"
    /\ run.lines = <<assignment_error_tmpl("int", "str")>>

\* def g(x: int) -> int: return x, then g("a")
BareCallProgram == Module(<<DefG, CallGa>>)

\* C2: on the bare-call program every check call that ends has returned
\* (it ran over the whole module) and has printed exactly one line, the
\* argument-type diagnostic for position 1 of "g", actual "str", declared
\* "int".
C2_BareCallEndToEnd ==
    (root = BareCallProgram /\ Ended(run)) =>
        /\ run.state = "returned"
        /\ run.lines = <<arg_type_error_tmpl(1, "g", "str", "int")>>

\* C3: a checker exists only for a done analyzer; constructing one from an
\* analyzer that is not done (never run, or every analyze call of which
\* aborted) raises RuntimeError and yields no checker; done becomes true
\* only in the step that ends an analyze call whose loop has passed the last
\* statement of the module, and never becomes false again.
C3_CheckerOnlyWhenDone ==
    /\ [](checker => done)
    /\ [][/\ done => done'
          /\ (~done /\ done') =>
                 /\ pc.op = "analyze" /\ pc.j = 0 /\ pc.i = Len(root.body) + 1
                 /\ result' = Finished("analyze", NoFailure)
          /\ (~done /\ pc = Idle /\ pc' = Idle /\ result'.op = "TypeChecker") =>
                 /\ result'.failure = "RuntimeError"
                 /\ ~checker']_vars

\* A construction that failed after an analyze call that aborted part way.
C3_Witness ==
    /\ result = Finished("TypeChecker", "RuntimeError")
    /\ ~done
    /\ ~checker
    /\ VARIABLE_TYPE_INFO # EmptyDict

\* C4: the step that checks an annotated assignment v: T = <integer
\* literal>, at top level or in a function body, prints the assignment
\* diagnostic with actual "int" and declared T if T is not "int", and
\* prints nothing if it is; T is the type annotated on that statement.
C4_IntLiteralAssignment ==
    [][(pc.op = "check" /\ AtLine /\ Statement.type = "AnnAssign"
            /\ Statement.value.type = "Integer") =>
          LET T == Statement.annotation.annotation.value
          IN  StepLines = IF T # INT_TYPE
                          THEN <<assignment_error_tmpl(INT_TYPE, T)>>
                          ELSE <<>>]_vars

\* C5: in the step that checks a call to a function with a known signature,
\* for every positional argument whose parameter is declared "any" or as a
\* name registered in the generics table (a target name of a TypeVar
\* declaration), no argument-type diagnostic for that position is printed
\* and the argument check of that position raises nothing.
C5_AnyAndGenericArgumentsSkipped ==
    [][(pc.op = "check" /\ AtLine /\ Statement.type \in {"AnnAssign", "Expr"}
            /\ Statement.value.type = "Call"
            /\ Statement.value.func.value \in DOMAIN FUNCTION_TYPE_INFO) =>
          LET func_name == Statement.value.func.value
              args == Statement.value.args
              params == FUNCTION_TYPE_INFO[func_name].args
          IN  \A k \in 1..Len(args) :
                 (/\ k <= Len(params)
                  /\ \/ params[k][2] = ANY_TYPE
                     \/ params[k][2] \in DOMAIN GENERICS_TYPE_INFO) =>
                     /\ _check_arg(func_name, k, args[k]).failure = NoFailure
                     /\ \A n \in 1..Len(StepLines) :
                            ~(/\ StepLines[n].tmpl = "arg-type"
                              /\ StepLines[n].pos = k)]_vars

\* C6: no diagnostic line printed by check shows the type "any" in either
\* of its type fields.
C6_AnyNeverDiagnosed ==
    \A n \in 1..Len(run.lines) : ANY_TYPE \notin TypeFields(run.lines[n])

\* The symbol of a binary operation's operator.
Symbol(operator) ==
    CASE operator.type = "Add" -> "+"
      [] operator.type = "Subtract" -> "-"

\* The first return statement of a function's body, if it has one.
Returns(node) ==
    {k \in 1..Len(node.body) : /\ node.body[k].type = "SimpleStatementLine"
                               /\ node.body[k].body[1].type = "Return"}

FirstReturn(node) ==
    node.body[CHOOSE k \in Returns(node) : \A m \in Returns(node) : k <= m].body[1]

\* C7: in the step that resolves the binary operation a function returns,
\* after the lines of resolving its two operands: if either operand
\* resolves to "any", nothing more is printed for the operation and it
\* resolves to "any"; if both resolve to the same type, nothing more is
\* printed and it resolves to that type; otherwise exactly one operator
\* diagnostic is printed, with the operation's operator symbol and the left
\* and right types, and it resolves to the left type.
C7_BinaryOperationResolution ==
    [][(/\ pc.op = "check" /\ pc.j > 0 /\ pc.j > Len(root.body[pc.i].body)
        /\ root.body[pc.i].name.value \in DOMAIN FUNCTION_TYPE_INFO
        /\ Returns(root.body[pc.i]) # {}
        /\ FirstReturn(root.body[pc.i]).value.type = "BinaryOperation") =>
          LET node == FirstReturn(root.body[pc.i]).value
              left == _resolve_node(node.left)
              right == _resolve_node(node.right)
              before == left.lines \o right.lines
              own == SelectSeq(SubSeq(StepLines, Len(before) + 1, Len(StepLines)),
                               LAMBDA line : line.tmpl = "operator")
              resolved == _resolve_node(node).type
          IN  /\ SubSeq(StepLines, 1, Len(before)) = before
              /\ IF left.type = ANY_TYPE \/ right.type = ANY_TYPE
                 THEN own = <<>> /\ resolved = ANY_TYPE
                 ELSE IF left.type = right.type
                 THEN own = <<>> /\ resolved = left.type
                 ELSE /\ own = <<operand_error_tmpl(Symbol(node.operator),
                                                    left.type, right.type)>>
                      /\ resolved = left.type]_vars

\* C8: two successive check calls on the same module that have ended
\* printed the same lines and ended the same way (both returned, or both
\* raised the same failure after the same lines), and no step of a check
\* call changes the three tables or the done flag of the analyzer.
C8_CheckRepeatable ==
    /\ []((Ended(run) /\ Ended(prev)) => run = prev)
    /\ [][(pc.op = "check" \/ pc'.op = "check") =>
              /\ tables' = tables
              /\ done' = done]_vars

\* A second check that printed the same two or more lines as the first.
C8_Witness ==
    /\ run.state = "returned"
    /\ prev.state = "returned"
    /\ Len(run.lines) >= 2
    /\ run.lines = prev.lines

\* C9: once done is true, no step adds, removes or overwrites an entry of
\* the generics, function or variable table.
C9_TablesFrozenWhenDone ==
    [][done => tables' = tables]_vars

\* The plain assignments that declare a generic parameter: the right-hand
\* side calls TypeVar with a string literal as its first argument.
DeclaresGeneric(statement) ==
    /\ statement.value.type = "Call"
    /\ statement.value.func.value = "TypeVar"
    /\ statement.value.args # <<>>
    /\ statement.value.args[1].type = "SimpleString"

\* C10: the step of analyze on a plain assignment that declares no generic
\* parameter raises nothing, goes on to the next statement and leaves the
\* three tables as they were.
C10_PlainAssignmentIgnored ==
    [][(pc.op = "analyze" /\ AtLine /\ Statement.type = "Assign"
            /\ ~DeclaresGeneric(Statement)) =>
          /\ tables' = tables
          /\ pc' = (IF pc.j = 0 THEN At("analyze", pc.i + 1, 0)
                    ELSE At("analyze", pc.i, pc.j + 1))
          /\ result' = result]_vars

====
